---- MODULE Spec2Model ----
(***************************************************************************)
(* Model of oasislmf/utils/defaults.py, assign_defaults_to_il_inputs:      *)
(* the pass that assigns the default values of the FM profile to the IL    *)
(* input items dataframe, level by level and field by field.               *)
(*                                                                         *)
(* The dataframe df is a level_id column plus the field columns that are   *)
(* present; a cell is {} (null, NaN) or {n} (the number n).  A rule is the *)
(* record of the profile, with or without the key "condition"; a condition *)
(* is the string the code appends to the column reference and evaluates,   *)
(* kept as its sequence of tokens ("> 0" is <<">", "0">>, "" is <<>>).     *)
(***************************************************************************)
EXTENDS Integers, Sequences, FiniteSets, TLC

VARIABLES
    df,                                 \* the dataframe, mutated in place
    default_fm_profile_field_values,    \* the profile: level -> field -> rule
    li,                                 \* position of the loop over the levels
    fi,                                 \* position of the loop over the fields
    level_id,                           \* the local level_id of the pass
    pc,                                 \* "loop", "returned" or "raised"
    exc,                                \* the exception raised, "" if none
    calls,                              \* number of calls made on df so far
    df0,                                \* df as passed to the first call
    df1                                 \* df as returned by the first call

vars == <<df, default_fm_profile_field_values, li, fi, level_id, pc, exc,
          calls, df0, df1>>

----------------------------------------------------------------------------
(* Bounds and domains of the inputs *)

NumRows == 1

Fields == {"ded", "lim"}

Values == {-3, 10}

NULL == {}

Cells == {NULL} \cup {{n} : n \in Values}

DefaultValues == {0, 5}

LevelNames == {"L1", "L2", "LX"}

\* the supported FM levels and their ids; "LX" is no supported level
SUPPORTED_FM_LEVELS == [l \in {"L1", "L2"} |-> [id |-> IF l = "L1" THEN 1 ELSE 2]]

LevelIds == {SUPPORTED_FM_LEVELS[l].id : l \in DOMAIN SUPPORTED_FM_LEVELS}

----------------------------------------------------------------------------
(* The condition language, as Python evaluates it *)

ComparisonOps == {"==", "!=", ">", ">=", "<", "<="}

Literals == {"0", "10"}

\* the value of a numeric literal
ParseLiteral(s) == IF s = "0" THEN 0 ELSE 10

\* a Python comparison of two numbers
Compare(op, x, y) ==
    CASE op = "==" -> x = y
      [] op = "!=" -> x # y
      [] op = ">"  -> x > y
      [] op = ">=" -> x >= y
      [] op = "<"  -> x < y
      [] op = "<=" -> x <= y

\* the elementwise comparison of a cell with a number: a comparison with
\* NaN is False, except != which is True
CompareCell(op, cell, y) ==
    IF cell = NULL THEN op = "!="
    ELSE Compare(op, CHOOSE n \in cell : TRUE, y)

\* eval('df.loc[df.level_id == level_id, k]' + condition) on one column:
\* the exception raised, or the boolean mask over the rows (the mask is
\* elementwise, so the rows outside the scope do not bear on those inside).
\* A comparison with a numeric literal and a method call on the Series
\* evaluate; "?? 5" does not compile, and a name that is not bound raises
Eval(column, condition) ==
    IF Len(condition) = 2 /\ condition[1] \in ComparisonOps
       THEN IF condition[2] \in Literals
               THEN [exc |-> "",
                     mask |-> [i \in DOMAIN column |->
                         CompareCell(condition[1], column[i],
                                     ParseLiteral(condition[2]))]]
               ELSE [exc |-> "NameError", mask |-> <<>>]
    ELSE IF condition = <<".notnull()">>
       THEN [exc |-> "", mask |-> [i \in DOMAIN column |-> column[i] # NULL]]
    ELSE [exc |-> "SyntaxError", mask |-> <<>>]

----------------------------------------------------------------------------
(* One rule applied to the dataframe *)

\* Scope without the comparison of the level ids: every row is in scope
Scope_AllRows(d, lid) == DOMAIN d.level_id

\* df.level_id == level_id
Scope(d, lid) == {i \in DOMAIN d.level_id : d.level_id[i] = lid}

\* v.get('condition'): the condition is present and not the empty string
HasCondition(v) == "condition" \in DOMAIN v /\ v.condition # <<>>

\* AssignWhere with Series.mask in the place of Series.where: the values that
\* satisfy the condition are the ones replaced
AssignWhere_Mask(d, lid, k, v) ==
    IF k \notin DOMAIN d.data
       THEN [exc |-> "KeyError", df |-> d]
    ELSE LET e == Eval(d.data[k], v.condition) IN
         IF e.exc # ""
            THEN [exc |-> e.exc, df |-> d]
         ELSE [exc |-> "",
               df |-> [d EXCEPT !.data[k] =
                   [i \in DOMAIN d.level_id |->
                       IF i \in Scope(d, lid) /\ e.mask[i]
                          THEN {v.default_value}
                          ELSE d.data[k][i]]]]

\* df.loc[scope, k] = df.loc[scope, k].where(eval(...), v['default_value'])
AssignWhere(d, lid, k, v) ==
    IF k \notin DOMAIN d.data
       THEN [exc |-> "KeyError", df |-> d]
    ELSE LET e == Eval(d.data[k], v.condition) IN
         IF e.exc # ""
            THEN [exc |-> e.exc, df |-> d]
         ELSE [exc |-> "",
               df |-> [d EXCEPT !.data[k] =
                   [i \in DOMAIN d.level_id |->
                       IF i \in Scope(d, lid) /\ ~e.mask[i]
                          THEN {v.default_value}
                          ELSE d.data[k][i]]]]

\* AssignDefault as a fillna: only the null cells of the scope get the default
AssignDefault_FillNull(d, lid, k, v) ==
    [exc |-> "",
     df |-> [d EXCEPT !.data =
         [f \in DOMAIN d.data \cup {k} |->
             IF f # k THEN d.data[f]
             ELSE [i \in DOMAIN d.level_id |->
                     IF k \notin DOMAIN d.data
                        THEN IF i \in Scope(d, lid) THEN {v.default_value}
                             ELSE NULL
                     ELSE IF i \in Scope(d, lid) /\ d.data[k][i] = NULL
                        THEN {v.default_value}
                     ELSE d.data[k][i]]]]]

\* AssignDefault that adds a column that is not in the frame and leaves it
\* null, without the assignment to the scope
AssignDefault_NewColumnNull(d, lid, k, v) ==
    [exc |-> "",
     df |-> [d EXCEPT !.data =
         [f \in DOMAIN d.data \cup {k} |->
             IF f # k THEN d.data[f]
             ELSE [i \in DOMAIN d.level_id |->
                     IF k \notin DOMAIN d.data THEN NULL
                     ELSE IF i \in Scope(d, lid) THEN {v.default_value}
                     ELSE d.data[k][i]]]]]

\* df.loc[scope, k] = v['default_value']; a column that is not in the frame
\* is added, null outside the scope
AssignDefault(d, lid, k, v) ==
    [exc |-> "",
     df |-> [d EXCEPT !.data =
         [f \in DOMAIN d.data \cup {k} |->
             IF f # k THEN d.data[f]
             ELSE [i \in DOMAIN d.level_id |->
                     IF i \in Scope(d, lid) THEN {v.default_value}
                     ELSE IF k \in DOMAIN d.data THEN d.data[k][i]
                     ELSE NULL]]]]

\* the body of the loop over the fields
AssignRule(d, lid, k, v) ==
    IF HasCondition(v) THEN AssignWhere(d, lid, k, v)
    ELSE AssignDefault(d, lid, k, v)

----------------------------------------------------------------------------
(* The pass as a function: the loops of assign_defaults_to_il_inputs *)

RECURSIVE RunFields(_, _, _)
\* for k, v in default_fm_profile_field_values[level].items()
RunFields(d, lid, fields) ==
    IF fields = <<>> THEN [exc |-> "", df |-> d]
    ELSE LET r == AssignRule(d, lid, Head(fields).k, Head(fields).v) IN
         IF r.exc # "" THEN r ELSE RunFields(r.df, lid, Tail(fields))

RECURSIVE RunLevels(_, _)
\* for level in default_fm_profile_field_values.keys()
RunLevels(d, profile) ==
    IF profile = <<>> THEN [exc |-> "", df |-> d]
    ELSE IF Head(profile).level \notin DOMAIN SUPPORTED_FM_LEVELS
       THEN [exc |-> "KeyError", df |-> d]
    ELSE LET r == RunFields(d, SUPPORTED_FM_LEVELS[Head(profile).level].id,
                            Head(profile).fields) IN
         IF r.exc # "" THEN r ELSE RunLevels(r.df, Tail(profile))

----------------------------------------------------------------------------
(* The inputs: the dataframes and the profiles *)

MaxRules == 2

Min(a, b) == IF a < b THEN a ELSE b

\* the dataframes of NumRows rows (one row at least), with any of the field
\* columns present
Tables ==
    UNION {{[level_id |-> l, data |-> c] :
               l \in [1..NumRows -> LevelIds],
               c \in [cols -> [1..NumRows -> Cells]]} : cols \in SUBSET Fields}

Conditions ==
    {<<op, lit>> : op \in ComparisonOps, lit \in Literals}
        \cup {<<>>, <<"??", "5">>, <<".notnull()">>, <<">", "abc">>}

Rules ==
    {[default_value |-> n] : n \in DefaultValues}
        \cup {[default_value |-> n, condition |-> c] :
                 n \in DefaultValues, c \in Conditions}

\* the rules of the profiles that hold several rules
CommonRules ==
    {[default_value |-> 0],
     [default_value |-> 0, condition |-> <<">", "0">>],
     [default_value |-> 5, condition |-> <<"!=", "10">>],
     [default_value |-> 0, condition |-> <<"??", "5">>]}

Entries(rules) == {[k |-> f, v |-> r] : f \in Fields, r \in rules}

\* the field mappings of one level with at most n rules: the keys of a
\* mapping are distinct
FieldSeqs(l, n, rules) ==
    IF l \notin DOMAIN SUPPORTED_FM_LEVELS
       THEN {<<[k |-> "ded", v |-> [default_value |-> 0]]>>}
    ELSE {<<e>> : e \in Entries(rules)}
         \cup (IF n < 2 THEN {}
               ELSE {s \in Entries(rules) \X Entries(rules) : s[1].k # s[2].k})

RECURSIVE ProfilesOf(_, _, _)
\* the profiles with at most n rules, drawn from rules, over the level names
\* in names
ProfilesOf(n, names, rules) ==
    {<<>>} \cup
    (IF n = 0 THEN {}
     ELSE UNION {UNION {{<<[level |-> l, fields |-> fs]>> \o rest :
                            rest \in ProfilesOf(n - Len(fs), names \ {l}, rules)} :
                        fs \in FieldSeqs(l, n, rules)} : l \in names})

\* one rule of any shape, or up to MaxRules rules of the common shapes
Profiles ==
    ProfilesOf(1, LevelNames, Rules) \cup ProfilesOf(MaxRules, LevelNames, CommonRules)

----------------------------------------------------------------------------
(* The pass, one step per iteration of its loops *)

Init ==
    /\ df \in Tables
    /\ default_fm_profile_field_values \in Profiles
    /\ li = 0
    /\ fi = 0
    /\ level_id = 0
    /\ pc = "loop"
    /\ exc = ""
    /\ calls = 1
    /\ df0 = df
    /\ df1 = df

profile == default_fm_profile_field_values

\* the loop over the fields of the current level is over (or not begun)
FieldsDone == IF li = 0 THEN TRUE ELSE fi = Len(profile[li].fields)

\* NextLevel with SUPPORTED_FM_LEVELS.get(level) and a continue: a level that
\* is not supported is passed over with its rules
NextLevel_SkipUnknown ==
    /\ pc = "loop" /\ FieldsDone /\ li < Len(profile)
    /\ li' = li + 1
    /\ IF profile[li + 1].level \in DOMAIN SUPPORTED_FM_LEVELS
          THEN /\ level_id' = SUPPORTED_FM_LEVELS[profile[li + 1].level].id
               /\ fi' = 0
          ELSE /\ fi' = Len(profile[li + 1].fields)
               /\ UNCHANGED level_id
    /\ UNCHANGED <<df, default_fm_profile_field_values, pc, exc, calls, df0, df1>>

\* for level in ...keys(): level_id = SUPPORTED_FM_LEVELS[level]['id']
NextLevel ==
    /\ pc = "loop" /\ FieldsDone /\ li < Len(profile)
    /\ li' = li + 1
    /\ fi' = 0
    /\ IF profile[li + 1].level \in DOMAIN SUPPORTED_FM_LEVELS
          THEN /\ level_id' = SUPPORTED_FM_LEVELS[profile[li + 1].level].id
               /\ UNCHANGED <<pc, exc>>
          ELSE /\ pc' = "raised"
               /\ exc' = "KeyError"
               /\ UNCHANGED level_id
    /\ UNCHANGED <<df, default_fm_profile_field_values, calls, df0, df1>>

\* one iteration of the loop over the fields, with result r
FieldStep(r) ==
    /\ fi' = fi + 1
    /\ df' = r.df
    /\ exc' = r.exc
    /\ pc' = IF r.exc # "" THEN "raised" ELSE pc
    /\ UNCHANGED <<default_fm_profile_field_values, li, level_id, calls, df0, df1>>

\* if v.get('condition'): the assignment under the condition
ConditionalAssign ==
    /\ pc = "loop" /\ ~FieldsDone
    /\ LET e == profile[li].fields[fi + 1] IN
       /\ HasCondition(e.v)
       /\ FieldStep(AssignWhere(df, level_id, e.k, e.v))

\* else: the unconditional assignment
DefaultAssign ==
    /\ pc = "loop" /\ ~FieldsDone
    /\ LET e == profile[li].fields[fi + 1] IN
       /\ ~HasCondition(e.v)
       /\ FieldStep(AssignDefault(df, level_id, e.k, e.v))

\* return df
Return ==
    /\ pc = "loop" /\ FieldsDone /\ li = Len(profile)
    /\ pc' = "returned"
    /\ UNCHANGED <<df, default_fm_profile_field_values, li, fi, level_id, exc,
                   calls, df0, df1>>

\* the caller passes the dataframe returned to the function once more
CallAgain ==
    /\ pc = "returned" /\ calls = 1
    /\ calls' = 2
    /\ df1' = df
    /\ li' = 0 /\ fi' = 0 /\ level_id' = 0
    /\ pc' = "loop"
    /\ UNCHANGED <<df, default_fm_profile_field_values, exc, df0>>

Next == NextLevel \/ ConditionalAssign \/ DefaultAssign \/ Return \/ CallAgain

Spec == Init /\ [][Next]_vars

----------------------------------------------------------------------------
(* Vocabulary of the properties *)

\* the dataframe as passed to the running call
Before == IF calls = 1 THEN df0 ELSE df1

Rows == 1..NumRows

\* the value a row holds in a field; a field with no column holds no value
\* and reads as null
Cell(d, i, f) == IF f \in DOMAIN d.data THEN d.data[f][i] ELSE NULL

\* the rules of the profile, each with the name of its level
ProfileRules ==
    {[level |-> profile[l].level,
      k |-> profile[l].fields[f].k,
      v |-> profile[l].fields[f].v] :
        <<l, f>> \in {p \in (1..Len(profile)) \X (1..Cardinality(Fields)) :
                         p[2] <= Len(profile[p[1]].fields)}}

ProfileLevels == {profile[l].level : l \in 1..Len(profile)}

Supported(l) == l \in DOMAIN SUPPORTED_FM_LEVELS

\* the conditions of the rule language: an operator of the fixed set and a
\* numeric literal
WellFormed == {<<op, lit>> : op \in ComparisonOps, lit \in Literals}

\* the number n satisfies the well-formed condition c
Satisfies(n, c) ==
    LET y == ParseLiteral(c[2]) IN
    \/ c[1] = "==" /\ n = y
    \/ c[1] = "!=" /\ n # y
    \/ c[1] = ">"  /\ n > y
    \/ c[1] = ">=" /\ ~(n < y)
    \/ c[1] = "<"  /\ n < y
    \/ c[1] = "<=" /\ ~(n > y)

\* the rows of d at the level named l
RowsOf(d, l) == {i \in Rows : d.level_id[i] = SUPPORTED_FM_LEVELS[l].id}

----------------------------------------------------------------------------
(* C1: after the pass, under a rule with a condition on field F of level L, *)
(* every row of level L that held a value in F holds that value still if    *)
(* the value satisfies the condition, and the rule's default otherwise.     *)
(* (The rows that held null are the matter of C3.)                          *)

----------------------------------------------------------------------------
(* C2: after the pass, under a rule without a condition on field F of level *)
(* L, every row of level L holds the rule's default in F, whatever it held. *)

C2_NoConditionAlwaysDefaults ==
    pc = "returned" =>
        \A r \in ProfileRules :
            "condition" \notin DOMAIN r.v =>
                /\ r.k \in DOMAIN df.data
                /\ \A i \in RowsOf(df, r.level) :
                      df.data[r.k][i] = {r.v.default_value}

\* a pass has returned that overwrote a value, not only a null
C2_Witness ==
    /\ pc = "returned" /\ calls = 1
    /\ \E r \in ProfileRules :
          /\ "condition" \notin DOMAIN r.v
          /\ \E i \in RowsOf(df0, r.level) :
                /\ Cell(df0, i, r.k) = {10}
                /\ Cell(df, i, r.k) = {r.v.default_value}

----------------------------------------------------------------------------
(* C3: after the pass, under a rule with a well-formed condition (any       *)
(* operator, any literal), a row in scope whose field was null holds the    *)
(* rule's default: a null is never kept.                                    *)

C3_NullNeverKept ==
    pc = "returned" =>
        \A r \in ProfileRules :
            ("condition" \in DOMAIN r.v /\ r.v.condition \in WellFormed) =>
                \A i \in RowsOf(Before, r.level) :
                    (r.k \in DOMAIN Before.data /\ Before.data[r.k][i] = NULL)
                        => Cell(df, i, r.k) = {r.v.default_value}

----------------------------------------------------------------------------
\* the fields that the rules of the level of row i name
NamedFor(d, i) ==
    {r.k : r \in {q \in ProfileRules :
                     Supported(q.level) /\ i \in RowsOf(d, q.level)}}

(* C4: after the pass, a row whose level is no level of the profile holds   *)
(* in every field what it held before, and every row holds what it held     *)
(* before in every field that no rule of its level names.                   *)

C4_Frame ==
    pc = "returned" =>
        \A i \in Rows : \A f \in Fields \ NamedFor(Before, i) :
            Cell(df, i, f) = Cell(Before, i, f)

\* a pass has returned that had a rule on a field for one level and a row of
\* another level with a value in that field
C4_Witness ==
    /\ pc = "returned" /\ calls = 1
    /\ \E r \in ProfileRules : \E i \in Rows :
          /\ i \notin RowsOf(df0, r.level)
          /\ r.k \notin NamedFor(df0, i)
          /\ Cell(df0, i, r.k) # NULL
          /\ Cell(df, i, r.k) # {r.v.default_value}

----------------------------------------------------------------------------
(* C5: a second call on the dataframe the first call returned, with the     *)
(* same profile, succeeds and returns that dataframe unchanged.             *)

C5_Idempotent ==
    calls = 2 => /\ pc # "raised"
                 /\ pc = "returned" => df = df1

\* a second call has returned after a first call that replaced a value by a
\* default that fails the rule's own condition
C5_Witness ==
    /\ calls = 2 /\ pc = "returned" /\ df1 # df0
    /\ \E r \in ProfileRules :
          /\ "condition" \in DOMAIN r.v /\ r.v.condition = <<">", "0">>
          /\ r.v.default_value = 0
          /\ \E i \in RowsOf(df0, r.level) : Cell(df0, i, r.k) = {-3}

----------------------------------------------------------------------------
(* C6: a profile with a rule whose condition is malformed (its operator is  *)
(* not one of the fixed set, or its literal does not parse) never makes the *)
(* pass return a table: the pass ends in an error.                          *)

C6_MalformedConditionRaises ==
    pc = "returned" =>
        \A r \in ProfileRules :
            HasCondition(r.v) => r.v.condition \in WellFormed

----------------------------------------------------------------------------
(* C7: a profile with a level name that has no entry in the level-id        *)
(* mapping never makes the pass return a table, and the pass raises at that *)
(* level instead of skipping it.                                            *)

C7_UnknownLevelRaises ==
    /\ pc = "returned" => \A l \in ProfileLevels : Supported(l)
    /\ (li > 0 /\ ~Supported(profile[li].level))
          => (pc = "raised" /\ exc = "KeyError")

\* the pass has raised at an unknown level that follows a supported one
C7_Witness ==
    /\ pc = "raised" /\ exc = "KeyError"
    /\ li > 1
    /\ ~Supported(profile[li].level)
    /\ Supported(profile[li - 1].level)

----------------------------------------------------------------------------
(* C8: a rule on a field whose column the input table lacks is applied as   *)
(* a rule without a condition: it raises nothing and every row of its level *)
(* holds its default afterwards, whether or not it has a condition.         *)

C8_MissingColumnDefaulted ==
    (calls = 1 /\ li > 0 /\ fi > 0) =>
        LET e == profile[li].fields[fi] IN
        (/\ e.k \notin DOMAIN df0.data
         /\ ("condition" \in DOMAIN e.v => e.v.condition \in WellFormed))
            => /\ pc # "raised"
               /\ \A i \in Scope(df, level_id) :
                     Cell(df, i, e.k) = {e.v.default_value}

----------------------------------------------------------------------------
\* the sequences that hold the elements of s in another order
Perms(s) ==
    {[i \in 1..Len(s) |-> s[q[i]]] :
        q \in {g \in [1..Len(s) -> 1..Len(s)] :
                  \A a, b \in 1..Len(s) : a # b => g[a] # g[b]}}

RECURSIVE FieldReorderings(_)
FieldReorderings(s) ==
    IF s = <<>> THEN {<<>>}
    ELSE {<<[level |-> Head(s).level, fields |-> fp]>> \o rest :
             fp \in Perms(Head(s).fields), rest \in FieldReorderings(Tail(s))}

\* the profile in every order of its levels and of the fields of each level
Reorderings(s) == UNION {FieldReorderings(lp) : lp \in Perms(s)}

\* the first call has ended, and every other order ends as it did: with an
\* error, or with the same table
C9_SameOutcome ==
    (calls = 1 /\ pc \in {"returned", "raised"}) =>
        \A q \in Reorderings(profile) :
            LET r == RunLevels(df0, q) IN
            /\ (r.exc = "") = (pc = "returned")
            /\ r.exc = "" => r.df = df

\* a step that applies a rule leaves the rule's field as it was in the rows
\* of the other levels
C9_OtherLevelsUntouched ==
    fi' = fi + 1 =>
        \A i \in Rows \ Scope(df, level_id) :
            Cell(df', i, profile[li].fields[fi + 1].k)
                = Cell(df, i, profile[li].fields[fi + 1].k)

(* C9: the outcome of the pass is the same under every order of the levels  *)
(* and of the fields within a level, and a rule for one level never changes *)
(* its field in a row of another level.                                     *)

C9_OrderIndependent == [][C9_SameOutcome' /\ C9_OtherLevelsUntouched]_vars

----------------------------------------------------------------------------
(* C10: a rule, with or without a condition, whose level no row of the      *)
(* table has raises nothing and leaves the table as it was before the rule. *)

C10_EmptyScopeNoOp ==
    [][(/\ fi' = fi + 1
        /\ Scope(df, level_id) = {}
        /\ LET v == profile[li].fields[fi + 1].v IN
           "condition" \in DOMAIN v => v.condition \in WellFormed)
          => (/\ pc' # "raised"
              /\ \A i \in Rows : \A f \in Fields :
                    Cell(df', i, f) = Cell(df, i, f))]_vars

====
